---- MODULE Spec2Model ----
(***************************************************************************)
(* The stub generation engine of dubbo-build: the generation orchestrator  *)
(* (SvcGenerator, prost.rs), the IR adapter (DubboService / DubboMethod,   *)
(* prost.rs), the type path resolver (convert_type, prost.rs) and the      *)
(* client stub emitter (client.rs).                                        *)
(*                                                                         *)
(* Text is modelled by TLA+ strings (Len, \o, SubSeq, Head and Tail work   *)
(* on them character by character).  A TokenStream is a sequence of        *)
(* tokens, each token the string of its characters; the accumulation       *)
(* buffers hold one structured item per generated module.                  *)
(***************************************************************************)
EXTENDS Naturals, Sequences, FiniteSets

VARIABLES
    builder,   \* SvcGenerator.builder : the Builder the generator was made from
    clients,   \* SvcGenerator.clients : TokenStream, one module item per service
    servers,   \* SvcGenerator.servers : TokenStream, one module item per service
    buf,       \* the output String handed to finalize, as its formatted items
    aborted,   \* TRUE once an expect()/unwrap() has panicked
    calls,     \* history: the ServiceGenerator calls made so far
    rq,        \* resolver harness: the arguments of convert_type
    rs         \* resolver harness: the successive results of convert_type

vars == <<builder, clients, servers, buf, aborted, calls, rq, rs>>

(***************************************************************************)
(* Bounds of the model.                                                    *)
(***************************************************************************)
MaxGenerate == 2
MaxFinalize == 2
MaxMethods == 2
MaxSegments == 2

(***************************************************************************)
(* Strings.                                                                *)
(***************************************************************************)
\* str::starts_with
StartsWith(s, p) == Len(s) >= Len(p) /\ SubSeq(s, 1, Len(p)) = p

\* the text after the first n characters
Drop(s, n) == SubSeq(s, n + 1, Len(s))

\* str::is_empty
IsEmpty(s) == Len(s) = 0

IdentChars ==
    { "a", "b", "c", "d", "e", "f", "g", "h", "i", "j", "k", "l", "m",
      "n", "o", "p", "q", "r", "s", "t", "u", "v", "w", "x", "y", "z",
      "A", "B", "C", "D", "E", "F", "G", "H", "I", "J", "K", "L", "M",
      "N", "O", "P", "Q", "R", "S", "T", "U", "V", "W", "X", "Y", "Z",
      "0", "1", "2", "3", "4", "5", "6", "7", "8", "9", "_" }

\* reserved words of the generated language that occur in the inputs
Keywords == { "fn", "crate", "super", "self", "Self" }

\* reserved words a path segment may be
PathKeywords == { "crate", "super", "self", "Self" }

\* length of the longest prefix of s made of identifier characters
RECURSIVE IdentRun(_)
IdentRun(s) ==
    IF IsEmpty(s) \/ Head(s) \notin IdentChars THEN 0
    ELSE 1 + IdentRun(Tail(s))

\* str::parse::<TokenStream>: the tokens of a text.  White space separates
\* tokens and is dropped; "::" and the empty group "()" are one token each.
RECURSIVE Lex(_)
Lex(s) ==
    IF IsEmpty(s) THEN << >>
    ELSE IF Head(s) = " " THEN Lex(Tail(s))
    ELSE IF StartsWith(s, "::") THEN <<"::">> \o Lex(Drop(s, 2))
    ELSE IF StartsWith(s, "()") THEN <<"()">> \o Lex(Drop(s, 2))
    ELSE LET n == IdentRun(s)
         IN  IF n > 0 THEN <<SubSeq(s, 1, n)>> \o Lex(Drop(s, n))
             ELSE <<SubSeq(s, 1, 1)>> \o Lex(Tail(s))

\* a token that is an identifier (reserved words included)
IsWord(t) == Len(t) > 0 /\ IdentRun(t) = Len(t)

\* syn::Ident: an identifier that is no reserved word
IsIdent(t) == IsWord(t) /\ t \notin Keywords

\* syn::PathSegment: an identifier, or one of the path keywords
IsSegment(t) == IsWord(t) /\ (t \notin Keywords \/ t \in PathKeywords)

\* syn::Path: an optional leading "::", then segments separated by "::"
RECURSIVE IsSegments(_)
IsSegments(ts) ==
    /\ Len(ts) >= 1
    /\ IsSegment(ts[1])
    /\ \/ Len(ts) = 1
       \/ /\ Len(ts) >= 3
          /\ ts[2] = "::"
          /\ IsSegments(SubSeq(ts, 3, Len(ts)))

IsPath(ts) ==
    IF Len(ts) >= 1 /\ ts[1] = "::" THEN IsSegments(Tail(ts))
    ELSE IsSegments(ts)

\* the value that stands for a panicking unwrap()
Panic == <<"!panic">>

\* syn::parse_str::<syn::Path>(s).unwrap().to_token_stream()
ParsePath(s) == LET ts == Lex(s) IN IF IsPath(ts) THEN ts ELSE Panic

\* how the formatter prints the tokens of a type reference: no white space
RECURSIVE TokensToText(_)
TokensToText(ts) ==
    IF ts = << >> THEN "" ELSE ts[1] \o TokensToText(Tail(ts))

(***************************************************************************)
(* The type path resolver.                                                 *)
(***************************************************************************)
GOOGLE_PREFIX == ".google.protobuf"

NON_PATH_TYPE_ALLOWLIST == { "()" }

\* is_google_type comparing the whole name instead of its prefix
is_google_type_exact(proto_type) == proto_type = GOOGLE_PREFIX

is_google_type(proto_type) == StartsWith(proto_type, GOOGLE_PREFIX)

\* the separator format!("{}::{}", proto_path, rust_type) puts between them
PathSeparator == "::"

\* convert_type without the arm for module-relative names
convert_type_no_crate_arm(proto_type, rust_type, proto_path, compile_well_known_types) ==
    IF \/ is_google_type(proto_type) /\ ~compile_well_known_types
       \/ StartsWith(rust_type, "::")
       \/ \E t \in NON_PATH_TYPE_ALLOWLIST : t = rust_type
    THEN Lex(rust_type)
    ELSE ParsePath(proto_path \o PathSeparator \o rust_type)

\* convert_type with the arguments of format! exchanged
convert_type_swapped(proto_type, rust_type, proto_path, compile_well_known_types) ==
    IF \/ is_google_type(proto_type) /\ ~compile_well_known_types
       \/ StartsWith(rust_type, "::")
       \/ \E t \in NON_PATH_TYPE_ALLOWLIST : t = rust_type
    THEN Lex(rust_type)
    ELSE IF StartsWith(rust_type, "crate::")
    THEN ParsePath(rust_type)
    ELSE ParsePath(rust_type \o PathSeparator \o proto_path)

convert_type(proto_type, rust_type, proto_path, compile_well_known_types) ==
    IF \/ is_google_type(proto_type) /\ ~compile_well_known_types
       \/ StartsWith(rust_type, "::")
       \/ \E t \in NON_PATH_TYPE_ALLOWLIST : t = rust_type
    THEN Lex(rust_type)
    ELSE IF StartsWith(rust_type, "crate::")
    THEN ParsePath(rust_type)
    ELSE ParsePath(proto_path \o PathSeparator \o rust_type)

(***************************************************************************)
(* The inputs of the resolver harness.  prost-build hands the generator    *)
(* protocol-level names that start with "." and in-language names that are *)
(* "()", a primitive, or a path with no white space in it.                 *)
(***************************************************************************)
Idents == { "pb", "Empty" }

RECURSIVE PathsOfLen(_)
PathsOfLen(n) ==
    IF n = 1 THEN Idents
    ELSE { p \o "::" \o i : p \in PathsOfLen(n - 1), i \in Idents }

Paths == UNION { PathsOfLen(n) : n \in 1..MaxSegments }

RustPrefixes == { "", "::", "crate::", "super::" }

RustTypes ==
    { pre \o p : pre \in RustPrefixes, p \in Paths }
        \cup { "()", "bool", "crate_pb::Empty" }

ProtoTypes ==
    { ".google.protobuf.Empty", ".google.protobufx.Thing",
      ".google.type.Date", ".greet.v1.HelloRequest" }

ProtoPaths == { "super", "crate::pb" }

NoRequest == [ idle |-> TRUE ]

ResolveRequests ==
    [ proto_type : ProtoTypes, rust_type : RustTypes,
      proto_path : ProtoPaths, compile_well_known_types : BOOLEAN ]

(***************************************************************************)
(* The IR adapter: DubboService and DubboMethod over prost_build's values. *)
(* A method is [name, proto_name, input_type, output_type,                 *)
(* input_proto_type, output_proto_type, client_streaming,                  *)
(* server_streaming]; a service is [name, proto_name, package, methods].   *)
(* Comments and options do not reach the emitted operations and are left   *)
(* out.                                                                    *)
(***************************************************************************)
\* DubboMethod::new(Method { .. }) : the field by field copy of a method
DubboMethod_new(m) ==
    [ name |-> m.name,
      proto_name |-> m.proto_name,
      input_type |-> m.input_type,
      output_type |-> m.output_type,
      input_proto_type |-> m.input_proto_type,
      output_proto_type |-> m.output_proto_type,
      client_streaming |-> m.client_streaming,
      server_streaming |-> m.server_streaming ]

\* methods with the loop starting one element late
methods_skip_first(service) ==
    [ i \in 1..(Len(service.methods) - 1) |-> DubboMethod_new(service.methods[i + 1]) ]

\* Service::methods : the adapted methods, pushed in declaration order
methods(service) ==
    [ i \in 1..Len(service.methods) |-> DubboMethod_new(service.methods[i]) ]

\* Service::package
package(service) == service.package

\* Service::identifier
identifier(service) == service.proto_name

\* Method::identifier
method_identifier(method) == method.proto_name

\* Method::codec_path
codec_path(method) == "triple::codec::serde_codec::SerdeCodec"

\* Method::request_response_name
request_response_name(method, proto_path, compile_well_known_types) ==
    << convert_type(method.input_proto_type, method.input_type,
                    proto_path, compile_well_known_types),
       convert_type(method.output_proto_type, method.output_type,
                    proto_path, compile_well_known_types) >>

(***************************************************************************)
(* The client stub emitter.  An emitted operation is the record of what    *)
(* its template splices and fixes: the function name, the request and      *)
(* response type references, the shape of the parameter and of the         *)
(* returned value, the codec, the path literal and the transport           *)
(* operation the body forwards to.                                         *)
(***************************************************************************)
CODEC_PATH == "triple::codec::prost::ProstCodec"

generate_unary(method, proto_path, compile_well_known_types, path) ==
    LET rr == request_response_name(method, proto_path, compile_well_known_types)
    IN  [ ident |-> method.name,
          request |-> rr[1],
          response |-> rr[2],
          param |-> "Request",
          returns |-> "Response",
          codec |-> ParsePath(CODEC_PATH),
          path |-> path,
          transport |-> "unary" ]

generate_server_streaming(method, proto_path, compile_well_known_types, path) ==
    LET rr == request_response_name(method, proto_path, compile_well_known_types)
    IN  [ ident |-> method.name,
          request |-> rr[1],
          response |-> rr[2],
          param |-> "Request",
          returns |-> "Response<Decoding>",
          codec |-> ParsePath(CODEC_PATH),
          path |-> path,
          transport |-> "server_streaming" ]

generate_client_streaming(method, proto_path, compile_well_known_types, path) ==
    LET rr == request_response_name(method, proto_path, compile_well_known_types)
    IN  [ ident |-> method.name,
          request |-> rr[1],
          response |-> rr[2],
          param |-> "impl IntoStreamingRequest",
          returns |-> "Response",
          codec |-> ParsePath(CODEC_PATH),
          path |-> path,
          transport |-> "client_streaming" ]

generate_streaming(method, proto_path, compile_well_known_types, path) ==
    LET rr == request_response_name(method, proto_path, compile_well_known_types)
    IN  [ ident |-> method.name,
          request |-> rr[1],
          response |-> rr[2],
          param |-> "impl IntoStreamingRequest",
          returns |-> "Response<Decoding>",
          codec |-> ParsePath(CODEC_PATH),
          path |-> path,
          transport |-> "bidi_streaming" ]

\* method_path with the dot written whether or not there is a package
method_path_always_dot(service, emit_package, method) ==
    LET pkg == IF emit_package THEN service.package ELSE ""
    IN  "/" \o pkg \o "." \o service.proto_name \o "/" \o method.proto_name

\* format!("/{}{}{}/{}", package, "" or ".", service.identifier(), method.identifier())
method_path(service, emit_package, method) ==
    LET pkg == IF emit_package THEN package(service) ELSE ""
    IN  "/" \o pkg \o (IF IsEmpty(pkg) THEN "" ELSE ".")
            \o identifier(service) \o "/" \o method_identifier(method)

\* generate_method with the two one-sided streaming arms exchanged
generate_method_swapped(method, proto_path, compile_well_known_types, path) ==
    CASE ~method.client_streaming /\ ~method.server_streaming ->
             generate_unary(method, proto_path, compile_well_known_types, path)
      [] ~method.client_streaming /\ method.server_streaming ->
             generate_client_streaming(method, proto_path, compile_well_known_types, path)
      [] method.client_streaming /\ ~method.server_streaming ->
             generate_server_streaming(method, proto_path, compile_well_known_types, path)
      [] method.client_streaming /\ method.server_streaming ->
             generate_streaming(method, proto_path, compile_well_known_types, path)

\* the match on (client_streaming, server_streaming) of generate_methods
generate_method(method, proto_path, compile_well_known_types, path) ==
    CASE ~method.client_streaming /\ ~method.server_streaming ->
             generate_unary(method, proto_path, compile_well_known_types, path)
      [] ~method.client_streaming /\ method.server_streaming ->
             generate_server_streaming(method, proto_path, compile_well_known_types, path)
      [] method.client_streaming /\ ~method.server_streaming ->
             generate_client_streaming(method, proto_path, compile_well_known_types, path)
      [] method.client_streaming /\ method.server_streaming ->
             generate_streaming(method, proto_path, compile_well_known_types, path)

\* generate_methods : the loop over service.methods(), extending the stream
generate_methods(service, emit_package, proto_path, compile_well_known_types) ==
    LET ms == methods(service)
    IN  [ i \in 1..Len(ms) |->
            generate_method(ms[i], proto_path, compile_well_known_types,
                            method_path(service, emit_package, ms[i])) ]

\* client::generate : the module item of one service.  With the default
\* (empty) Attributes nothing is spliced before the module and the struct.
client_generate(service, emit_package, proto_path, compile_well_known_types) ==
    [ role |-> "client",
      struct_ident |-> service.name \o "Client",
      ops |-> generate_methods(service, emit_package, proto_path,
                               compile_well_known_types) ]

\* server::generate : the module item of one service, one operation per
\* method in declaration order, with the same path construction and type
\* resolution as the client and one of the four shapes.
server_generate(service, emit_package, proto_path, compile_well_known_types) ==
    LET ms == methods(service)
    IN  [ role |-> "server",
          struct_ident |-> service.name \o "Server",
          ops |-> [ i \in 1..Len(ms) |->
                      LET rr == request_response_name(ms[i], proto_path,
                                                      compile_well_known_types)
                      IN  [ ident |-> ms[i].name,
                            request |-> rr[1],
                            response |-> rr[2],
                            path |-> method_path(service, emit_package, ms[i]),
                            shape |-> <<ms[i].client_streaming,
                                        ms[i].server_streaming>> ] ] ]

(***************************************************************************)
(* The generation orchestrator.                                            *)
(***************************************************************************)
\* configure() : the default Builder.  protoc_args, include_file, output_dir
\* and the (empty) attributes do not reach generate and finalize.
configure ==
    [ build_client |-> TRUE,
      build_server |-> TRUE,
      proto_path |-> "super",
      compile_well_known_types |-> FALSE ]

\* the Builder values a generator is made from (SvcGenerator::new)
Builders ==
    [ build_client : BOOLEAN,
      build_server : BOOLEAN,
      proto_path : { "super" },
      compile_well_known_types : BOOLEAN ]

\* an unwrap() of the resolver panicked while the item was emitted
Panicked(item) ==
    \E i \in 1..Len(item.ops) :
        item.ops[i].request = Panic \/ item.ops[i].response = Panic

\* syn::parse2::<syn::File> : the stream parses when every item does; the
\* struct name and every function name must be identifiers, which a
\* reserved word is not.
ParsesAsFile(stream) ==
    \A k \in 1..Len(stream) :
        /\ IsIdent(stream[k].struct_ident)
        /\ \A i \in 1..Len(stream[k].ops) : IsIdent(stream[k].ops[i].ident)

\* prettyplease::unparse of one client operation
UnparseClientOp(op) ==
    [ ident |-> op.ident,
      request |-> TokensToText(op.request),
      response |-> TokensToText(op.response),
      param |-> op.param,
      returns |-> op.returns,
      codec |-> TokensToText(op.codec),
      path |-> op.path,
      transport |-> op.transport ]

\* prettyplease::unparse of one server operation
UnparseServerOp(op) ==
    [ ident |-> op.ident,
      request |-> TokensToText(op.request),
      response |-> TokensToText(op.response),
      path |-> op.path,
      shape |-> op.shape ]

\* prettyplease::unparse : the formatted text of the items, in their order
Unparse(stream) ==
    [ k \in 1..Len(stream) |->
        [ role |-> stream[k].role,
          struct_ident |-> stream[k].struct_ident,
          ops |-> [ i \in 1..Len(stream[k].ops) |->
                      IF stream[k].role = "client"
                      THEN UnparseClientOp(stream[k].ops[i])
                      ELSE UnparseServerOp(stream[k].ops[i]) ] ] ]

NoService == [ name |-> "", proto_name |-> "", package |-> "", methods |-> << >> ]

GenerateCalls == { i \in 1..Len(calls) : calls[i].op = "generate" }

FinalizeCalls == { i \in 1..Len(calls) : calls[i].op = "finalize" }

\* generate emitting the client whatever build_client says
generate_client_always(service) ==
    LET server == server_generate(service, TRUE, builder.proto_path,
                                  builder.compile_well_known_types)
        client == client_generate(service, TRUE, builder.proto_path,
                                  builder.compile_well_known_types)
    IN  /\ ~aborted
        /\ servers' = IF builder.build_server
                       THEN servers \o <<server>> ELSE servers
        /\ clients' = clients \o <<client>>
        /\ aborted' = FALSE
        /\ calls' = Append(calls, [ op |-> "generate", service |-> service ])
        /\ UNCHANGED <<builder, buf, rq, rs>>

\* generate putting the new items in front of the accumulated ones
generate_prepend(service) ==
    LET server == server_generate(service, TRUE, builder.proto_path,
                                  builder.compile_well_known_types)
        client == client_generate(service, TRUE, builder.proto_path,
                                  builder.compile_well_known_types)
    IN  /\ ~aborted
        /\ servers' = IF builder.build_server
                       THEN <<server>> \o servers ELSE servers
        /\ clients' = IF builder.build_client
                       THEN <<client>> \o clients ELSE clients
        /\ aborted' = FALSE
        /\ calls' = Append(calls, [ op |-> "generate", service |-> service ])
        /\ UNCHANGED <<builder, buf, rq, rs>>

\* SvcGenerator::generate(service, _buf)
generate(service) ==
    LET server == server_generate(service, TRUE, builder.proto_path,
                                  builder.compile_well_known_types)
        client == client_generate(service, TRUE, builder.proto_path,
                                  builder.compile_well_known_types)
        server_panics == builder.build_server /\ Panicked(server)
        client_panics == builder.build_client /\ Panicked(client)
    IN  /\ ~aborted
        /\ servers' = IF builder.build_server /\ ~server_panics
                       THEN servers \o <<server>> ELSE servers
        /\ clients' = IF builder.build_client /\ ~server_panics /\ ~client_panics
                       THEN clients \o <<client>> ELSE clients
        /\ aborted' = (server_panics \/ client_panics)
        /\ calls' = Append(calls, [ op |-> "generate", service |-> service ])
        /\ UNCHANGED <<builder, buf, rq, rs>>

\* finalize pushing the text of a role before its stream is parsed
finalize_push_first ==
    LET flush_clients == builder.build_client /\ clients # << >>
        clients_fail == flush_clients /\ ~ParsesAsFile(clients)
        buf1 == IF flush_clients THEN buf \o Unparse(clients) ELSE buf
        flush_servers == ~clients_fail /\ builder.build_server /\ servers # << >>
        servers_fail == flush_servers /\ ~ParsesAsFile(servers)
    IN  /\ ~aborted
        /\ clients' = IF flush_clients /\ ~clients_fail THEN << >> ELSE clients
        /\ buf' = IF flush_servers THEN buf1 \o Unparse(servers) ELSE buf1
        /\ servers' = IF flush_servers /\ ~servers_fail THEN << >> ELSE servers
        /\ aborted' = (clients_fail \/ servers_fail)
        /\ calls' = Append(calls, [ op |-> "finalize", service |-> NoService ])
        /\ UNCHANGED <<builder, rq, rs>>

\* finalize clearing the server buffer without pushing its text
finalize_skip_server_push ==
    LET flush_clients == builder.build_client /\ clients # << >>
        clients_fail == flush_clients /\ ~ParsesAsFile(clients)
        buf1 == IF flush_clients /\ ~clients_fail
                THEN buf \o Unparse(clients) ELSE buf
        flush_servers == ~clients_fail /\ builder.build_server /\ servers # << >>
        servers_fail == flush_servers /\ ~ParsesAsFile(servers)
    IN  /\ ~aborted
        /\ clients' = IF flush_clients /\ ~clients_fail THEN << >> ELSE clients
        /\ buf' = buf1
        /\ servers' = IF flush_servers /\ ~servers_fail THEN << >> ELSE servers
        /\ aborted' = (clients_fail \/ servers_fail)
        /\ calls' = Append(calls, [ op |-> "finalize", service |-> NoService ])
        /\ UNCHANGED <<builder, rq, rs>>

\* finalize leaving the client buffer as it is after pushing its text
finalize_keep_clients ==
    LET flush_clients == builder.build_client /\ clients # << >>
        clients_fail == flush_clients /\ ~ParsesAsFile(clients)
        buf1 == IF flush_clients /\ ~clients_fail
                THEN buf \o Unparse(clients) ELSE buf
        flush_servers == ~clients_fail /\ builder.build_server /\ servers # << >>
        servers_fail == flush_servers /\ ~ParsesAsFile(servers)
    IN  /\ ~aborted
        /\ clients' = clients
        /\ buf' = IF flush_servers /\ ~servers_fail
                   THEN buf1 \o Unparse(servers) ELSE buf1
        /\ servers' = IF flush_servers /\ ~servers_fail THEN << >> ELSE servers
        /\ aborted' = (clients_fail \/ servers_fail)
        /\ calls' = Append(calls, [ op |-> "finalize", service |-> NoService ])
        /\ UNCHANGED <<builder, rq, rs>>

\* SvcGenerator::finalize(buf)
finalize ==
    LET flush_clients == builder.build_client /\ clients # << >>
        clients_fail == flush_clients /\ ~ParsesAsFile(clients)
        buf1 == IF flush_clients /\ ~clients_fail
                THEN buf \o Unparse(clients) ELSE buf
        flush_servers == ~clients_fail /\ builder.build_server /\ servers # << >>
        servers_fail == flush_servers /\ ~ParsesAsFile(servers)
    IN  /\ ~aborted
        /\ clients' = IF flush_clients /\ ~clients_fail THEN << >> ELSE clients
        /\ buf' = IF flush_servers /\ ~servers_fail
                   THEN buf1 \o Unparse(servers) ELSE buf1
        /\ servers' = IF flush_servers /\ ~servers_fail THEN << >> ELSE servers
        /\ aborted' = (clients_fail \/ servers_fail)
        /\ calls' = Append(calls, [ op |-> "finalize", service |-> NoService ])
        /\ UNCHANGED <<builder, rq, rs>>

(***************************************************************************)
(* The services the generator is driven with.                              *)
(***************************************************************************)
Shapes ==
    { [ name |-> "say_hello", proto_name |-> "SayHello",
        client_streaming |-> FALSE, server_streaming |-> FALSE ],
      [ name |-> "list_items", proto_name |-> "ListItems",
        client_streaming |-> FALSE, server_streaming |-> TRUE ],
      [ name |-> "upload", proto_name |-> "Upload",
        client_streaming |-> TRUE, server_streaming |-> FALSE ],
      [ name |-> "chat", proto_name |-> "Chat",
        client_streaming |-> TRUE, server_streaming |-> TRUE ] }

Messages ==
    { [ input_proto_type |-> ".greet.v1.HelloRequest",
        input_type |-> "HelloRequest",
        output_proto_type |-> ".greet.v1.HelloReply",
        output_type |-> "HelloReply" ],
      [ input_proto_type |-> ".google.protobuf.Empty",
        input_type |-> "()",
        output_proto_type |-> ".greet.v1.Item",
        output_type |-> "crate::pb::Item" ] }

MakeMethod(shape, msg) ==
    [ name |-> shape.name,
      proto_name |-> shape.proto_name,
      input_type |-> msg.input_type,
      output_type |-> msg.output_type,
      input_proto_type |-> msg.input_proto_type,
      output_proto_type |-> msg.output_proto_type,
      client_streaming |-> shape.client_streaming,
      server_streaming |-> shape.server_streaming ]

MethodCatalogue == { MakeMethod(shape, msg) : shape \in Shapes, msg \in Messages }

MethodLists == UNION { [ 1..n -> MethodCatalogue ] : n \in 0..MaxMethods }

ServiceNames ==
    { [ name |-> "Greeter", proto_name |-> "Greeter" ],
      [ name |-> "EchoSvc", proto_name |-> "echo_svc" ] }

Packages == { "", "greet.v1" }

\* the services of the emitter specification
Services ==
    { [ name |-> id.name, proto_name |-> id.proto_name,
        package |-> pkg, methods |-> ms ] :
        id \in ServiceNames, pkg \in Packages, ms \in MethodLists }

HelloMessages == CHOOSE msg \in Messages : msg.input_type = "HelloRequest"

ItemMessages == CHOOSE msg \in Messages : msg.input_type = "()"

Shape(name) == CHOOSE shape \in Shapes : shape.name = name

Greeter ==
    [ name |-> "Greeter", proto_name |-> "Greeter", package |-> "greet.v1",
      methods |-> << MakeMethod(Shape("say_hello"), HelloMessages),
                     MakeMethod(Shape("list_items"), ItemMessages) >> ]

Ping ==
    [ name |-> "Ping", proto_name |-> "Ping", package |-> "",
      methods |-> << MakeMethod(Shape("chat"), HelloMessages) >> ]

\* a service with a method whose name is a reserved word: the emitted
\* function is named by it and the accumulated stream does not parse
Reserved ==
    [ name |-> "Reserved", proto_name |-> "Reserved", package |-> "kw.v1",
      methods |-> << [ MakeMethod(Shape("say_hello"), HelloMessages)
                         EXCEPT !.name = "fn", !.proto_name = "Fn" ] >> ]

\* the services of the orchestrator specification
Catalogue == { Greeter, Ping, Reserved }

(***************************************************************************)
(* The orchestrator: any interleaving of generate and finalize calls.      *)
(***************************************************************************)
Init ==
    /\ builder \in Builders
    /\ clients = << >>
    /\ servers = << >>
    /\ buf = << >>
    /\ aborted = FALSE
    /\ calls = << >>
    /\ rq = NoRequest
    /\ rs = << >>

Generate ==
    /\ Cardinality(GenerateCalls) < MaxGenerate
    /\ \E service \in Catalogue : generate(service)

Finalize ==
    /\ Cardinality(FinalizeCalls) < MaxFinalize
    /\ finalize

Next == Generate \/ Finalize

Spec == Init /\ [][Next]_vars

(***************************************************************************)
(* The emitter: one generate call on any service.                          *)
(***************************************************************************)
EmitOnce ==
    /\ calls = << >>
    /\ \E service \in Services : generate(service)

NextEmit == EmitOnce

\* the generators that build the client role
InitEmit == Init /\ builder.build_client

SpecEmit == InitEmit /\ [][NextEmit]_vars

(***************************************************************************)
(* The resolver: convert_type applied to a name, and again to its result.  *)
(***************************************************************************)
InitResolve ==
    /\ builder = configure
    /\ clients = << >>
    /\ servers = << >>
    /\ buf = << >>
    /\ aborted = FALSE
    /\ calls = << >>
    /\ rq \in ResolveRequests
    /\ rs = << >>

Resolve ==
    /\ rs = << >>
    /\ rs' = << convert_type(rq.proto_type, rq.rust_type, rq.proto_path,
                             rq.compile_well_known_types) >>
    /\ UNCHANGED <<builder, clients, servers, buf, aborted, calls, rq>>

ResolveAgain ==
    /\ Len(rs) = 1
    /\ rs[1] # Panic
    /\ rs' = Append(rs, convert_type(rq.proto_type, TokensToText(rs[1]),
                                     rq.proto_path, rq.compile_well_known_types))
    /\ UNCHANGED <<builder, clients, servers, buf, aborted, calls, rq>>

NextResolve == Resolve \/ ResolveAgain

SpecResolve == InitResolve /\ [][NextResolve]_vars

(***************************************************************************)
(* Properties of the client emitter (specification SpecEmit).              *)
(***************************************************************************)
\* a generate call has been made and its client item is in the buffer
ClientEmitted == calls # << >> /\ builder.build_client /\ clients # << >>

EmittedService == calls[Len(calls)].service

EmittedClient == clients[Len(clients)]

\* C1: the path literal of every emitted client operation is
\* "/" + package + "." + service identifier + "/" + method identifier when
\* the package is not empty and "/" + service identifier + "/" + method
\* identifier when it is, the identifiers copied as they are.
C1_PathLiteral ==
    ClientEmitted =>
        \A i \in 1..Len(EmittedService.methods) :
            /\ i \in DOMAIN EmittedClient.ops
            /\ EmittedClient.ops[i].path =
                   IF EmittedService.package # ""
                   THEN "/" \o EmittedService.package \o "."
                            \o EmittedService.proto_name \o "/"
                            \o EmittedService.methods[i].proto_name
                   ELSE "/" \o EmittedService.proto_name \o "/"
                            \o EmittedService.methods[i].proto_name
            /\ EmittedService.package = "" =>
                   SubSeq(EmittedClient.ops[i].path, 2, 2) # "."

C1_Witness ==
    /\ ClientEmitted
    /\ EmittedService.package = ""
    /\ EmittedService.name = "EchoSvc"
    /\ Len(EmittedClient.ops) = 2
    /\ EmittedClient.ops[1].path = "/echo_svc/SayHello"
    /\ EmittedClient.ops[2].path = "/echo_svc/Chat"

\* the signature and transport operation of each shape
ShapeTable(client_streaming, server_streaming) ==
    IF ~client_streaming /\ ~server_streaming
    THEN <<"Request", "Response", "unary">>
    ELSE IF ~client_streaming /\ server_streaming
    THEN <<"Request", "Response<Decoding>", "server_streaming">>
    ELSE IF client_streaming /\ ~server_streaming
    THEN <<"impl IntoStreamingRequest", "Response", "client_streaming">>
    ELSE <<"impl IntoStreamingRequest", "Response<Decoding>", "bidi_streaming">>

\* C2: each of the four (client_streaming, server_streaming) combinations
\* selects exactly one template, unary, server-streaming, client-streaming
\* or bidirectional, and the emitted operation forwards to the matching
\* transport operation.
C2_ShapeDispatch ==
    ClientEmitted =>
        /\ Len(EmittedClient.ops) = Len(EmittedService.methods)
        /\ \A i \in 1..Len(EmittedService.methods) :
              <<EmittedClient.ops[i].param, EmittedClient.ops[i].returns,
                EmittedClient.ops[i].transport>>
                  = ShapeTable(EmittedService.methods[i].client_streaming,
                               EmittedService.methods[i].server_streaming)

C2_Witness ==
    /\ ClientEmitted
    /\ Len(EmittedService.methods) = 2
    /\ EmittedService.methods[1].client_streaming
    /\ ~EmittedService.methods[1].server_streaming
    /\ EmittedClient.ops[1].transport = "client_streaming"
    /\ ~EmittedService.methods[2].client_streaming
    /\ EmittedService.methods[2].server_streaming
    /\ EmittedClient.ops[2].transport = "server_streaming"

\* C3: the client module of a service with N methods holds exactly N
\* operations, named after the methods, in declaration order.
C3_OnePerMethod ==
    ClientEmitted =>
        /\ Len(EmittedClient.ops) = Len(EmittedService.methods)
        /\ \A i \in 1..Len(EmittedService.methods) :
              EmittedClient.ops[i].ident = EmittedService.methods[i].name

C3_Witness ==
    /\ ClientEmitted
    /\ Len(EmittedService.methods) = 2
    /\ EmittedService.methods[1].name = "chat"
    /\ EmittedService.methods[2].name = "say_hello"
    /\ EmittedClient.ops[1].ident = "chat"
    /\ EmittedClient.ops[2].ident = "say_hello"

\* C7: the codec an emitted client operation binds is the one named by the
\* method's codec reference (Method::codec_path).
C7_CodecOfMethod ==
    ClientEmitted =>
        \A i \in 1..Len(EmittedClient.ops) :
            TokensToText(EmittedClient.ops[i].codec)
                = codec_path(methods(EmittedService)[i])

(***************************************************************************)
(* Properties of the type path resolver (specification SpecResolve).       *)
(***************************************************************************)
\* rule 1: a well-known protocol-level name, well-known types not compiled
WellKnownRule ==
    StartsWith(rq.proto_type, ".google.protobuf") /\ ~rq.compile_well_known_types

\* rule 2: the in-language name is qualified from the root
RootRule == StartsWith(rq.rust_type, "::")

\* rule 3: the in-language name is on the allow-list
AllowListRule == rq.rust_type = "()"

\* rule 4: the in-language name is relative to the current module
ModuleRule == StartsWith(rq.rust_type, "crate::")

VerbatimRule == WellKnownRule \/ RootRule \/ AllowListRule \/ ModuleRule

Resolved == Len(rs) >= 1

\* the reference the first resolution emits, as text
Reference == TokensToText(rs[1])

\* C4: the resolver emits the in-language name as it is, whatever
\* proto_path is, when one of the rules 1 to 4 holds; a well-known type
\* with compile_well_known_types set and none of the rules 2 to 4 is not
\* emitted as it is.
C4_VerbatimRules ==
    Resolved =>
        /\ VerbatimRule => Reference = rq.rust_type
        /\ ( /\ StartsWith(rq.proto_type, ".google.protobuf")
             /\ rq.compile_well_known_types
             /\ ~RootRule /\ ~AllowListRule /\ ~ModuleRule )
               => Reference # rq.rust_type

C4_Witness ==
    /\ Resolved
    /\ rq.proto_type = ".google.protobuf.Empty"
    /\ rq.compile_well_known_types
    /\ rq.rust_type = "crate::pb::Empty"
    /\ rq.proto_path = "crate::pb"
    /\ rs[1] = <<"crate", "::", "pb", "::", "Empty">>

\* C5 as stated: when none of the rules 1 to 4 applies the resolver emits
\* proto_path + "." + the in-language name.
C5_DotSeparator ==
    (Resolved /\ ~VerbatimRule) =>
        Reference = rq.proto_path \o "." \o rq.rust_type

\* C5 as amended: when none of the rules 1 to 4 applies the resolver emits
\* proto_path + "::" + the in-language name, and the default proto_path is
\* "super".
C5_PathPrefix ==
    /\ configure.proto_path = "super"
    /\ (Resolved /\ ~VerbatimRule) =>
          /\ Reference = rq.proto_path \o "::" \o rq.rust_type
          /\ rs[1] = Lex(rq.proto_path) \o <<"::">> \o Lex(rq.rust_type)

C5_Witness ==
    /\ Resolved
    /\ ~VerbatimRule
    /\ rq.proto_path = "super"
    /\ rq.rust_type = "pb::Empty"
    /\ rs[1] = <<"super", "::", "pb", "::", "Empty">>

\* C6: a name that satisfies one of the rules 1 to 4 resolves to itself,
\* and resolving the result again with the same protocol-level name,
\* proto_path and flag gives the same reference.
C6_Idempotent ==
    (Len(rs) = 2 /\ VerbatimRule) =>
        /\ Reference = rq.rust_type
        /\ rs[2] = rs[1]
        /\ TokensToText(rs[2]) = rq.rust_type

C6_Witness ==
    /\ Len(rs) = 2
    /\ rq.proto_type = ".google.protobuf.Empty"
    /\ ~rq.compile_well_known_types
    /\ rq.rust_type = "Empty"
    /\ rs[1] = <<"Empty">>
    /\ rs[2] = <<"Empty">>

(***************************************************************************)
(* Properties of the orchestrator (specification Spec).                    *)
(***************************************************************************)
IsClientItem(item) == item.role = "client"

IsServerItem(item) == item.role = "server"

\* the client stubs and the server stubs of the output, in their order
ClientText == SelectSeq(buf, IsClientItem)

ServerText == SelectSeq(buf, IsServerItem)

\* the step is a call of generate, of finalize
GenerateStep ==
    Len(calls') = Len(calls) + 1 /\ calls'[Len(calls')].op = "generate"

FinalizeStep ==
    Len(calls') = Len(calls) + 1 /\ calls'[Len(calls')].op = "finalize"

\* a sequence extends another one by at least one element
Extends(after, before) ==
    Len(after) > Len(before) /\ SubSeq(after, 1, Len(before)) = before

C8_Step ==
    GenerateStep =>
        /\ IF builder.build_client
           THEN Extends(clients', clients) ELSE clients' = clients
        /\ IF builder.build_server
           THEN Extends(servers', servers) ELSE servers' = servers

C8_State ==
    /\ configure.build_client /\ configure.build_server
    /\ ~builder.build_client => (clients = << >> /\ ClientText = << >>)
    /\ ~builder.build_server => (servers = << >> /\ ServerText = << >>)
    /\ (builder = configure /\ ~aborted) =>
          /\ Len(clients) + Len(ClientText) = Cardinality(GenerateCalls)
          /\ Len(servers) + Len(ServerText) = Cardinality(GenerateCalls)

\* C8: a generate call extends the client buffer iff build_client is set
\* and the server buffer iff build_server is set, so the output never holds
\* a stub of a role whose flag is not set; with the default configuration
\* both flags are set and both roles are emitted for every service.
C8_RoleFlags == [][C8_Step]_vars /\ []C8_State

C8_Witness ==
    /\ ~builder.build_client
    /\ builder.build_server
    /\ Cardinality(GenerateCalls) = 2
    /\ Cardinality(FinalizeCalls) = 1
    /\ clients = << >>
    /\ ClientText = << >>
    /\ Len(ServerText) = 2

\* finalize is about to parse the client stream, the server stream
ParsesClients == builder.build_client /\ clients # << >>

ParsesServers ==
    /\ ~(ParsesClients /\ ~ParsesAsFile(clients))
    /\ builder.build_server /\ servers # << >>

C9_Step ==
    /\ aborted => UNCHANGED vars
    /\ (FinalizeStep /\ ParsesClients /\ ~ParsesAsFile(clients)) =>
          (aborted' /\ buf' = buf)
    /\ (FinalizeStep /\ ParsesServers /\ ~ParsesAsFile(servers)) =>
          (aborted' /\ SelectSeq(buf', IsServerItem) = ServerText)

\* C9: when the accumulated text of a role does not parse during finalize,
\* generation aborts, nothing runs after it, and no text of that role is
\* appended to the output.
C9_ParseBeforePush == [][C9_Step]_vars

C9_Witness ==
    /\ aborted
    /\ calls[Len(calls)].op = "finalize"
    /\ ~builder.build_client
    /\ Len(servers) = 2
    /\ ~ParsesAsFile(servers)
    /\ buf = << >>

\* no stub of one role lies between two stubs of the other role
Grouped(text) ==
    \A i, j, k \in 1..Len(text) :
        (i < j /\ j < k /\ text[i].role = text[k].role)
            => text[j].role = text[i].role

\* the services passed to generate before the first finalize call
RECURSIVE DiscoveredIn(_)
DiscoveredIn(cs) ==
    IF cs = << >> \/ cs[1].op = "finalize" THEN << >>
    ELSE <<cs[1].service>> \o DiscoveredIn(Tail(cs))

Discovered == DiscoveredIn(calls)

\* C10: after any generate calls followed by one finalize call the output
\* holds the client stubs as one block and the server stubs as one block,
\* the services of each block in discovery order.
C10_GroupedByRole ==
    Cardinality(FinalizeCalls) = 1 =>
        /\ Grouped(buf)
        /\ ~aborted =>
              /\ Len(ClientText) = IF builder.build_client THEN Len(Discovered) ELSE 0
              /\ Len(ServerText) = IF builder.build_server THEN Len(Discovered) ELSE 0
              /\ \A i \in 1..Len(ClientText) :
                    ClientText[i].struct_ident = Discovered[i].name \o "Client"
              /\ \A i \in 1..Len(ServerText) :
                    ServerText[i].struct_ident = Discovered[i].name \o "Server"

C10_Witness ==
    /\ Cardinality(FinalizeCalls) = 1
    /\ ~aborted
    /\ Len(buf) = 4
    /\ buf[1].struct_ident = "PingClient"
    /\ buf[2].struct_ident = "GreeterClient"
    /\ buf[3].struct_ident = "PingServer"
    /\ buf[4].struct_ident = "GreeterServer"

\* a sequence is another one, or extends it
ExtendsOrEquals(after, before) ==
    Len(after) >= Len(before) /\ SubSeq(after, 1, Len(before)) = before

\* the names of the modules of a stream or of a text, in their order
StructIdents(items) == [ i \in 1..Len(items) |-> items[i].struct_ident ]

C11_Step ==
    /\ GenerateStep =>
          /\ buf' = buf
          /\ ExtendsOrEquals(clients', clients)
          /\ ExtendsOrEquals(servers', servers)
    /\ (FinalizeStep /\ ~aborted') =>
          /\ clients' = << >>
          /\ servers' = << >>
          /\ Len(buf') = Len(buf) + Len(clients) + Len(servers)
          /\ SubSeq(buf', 1, Len(buf)) = buf
          /\ StructIdents(SelectSeq(buf', IsClientItem))
                = StructIdents(ClientText) \o StructIdents(clients)
          /\ StructIdents(SelectSeq(buf', IsServerItem))
                = StructIdents(ServerText) \o StructIdents(servers)

\* C11: a generate call never writes to the output, it only extends the
\* accumulation buffers; after a finalize call that returns normally both
\* buffers are empty, a buffer that was not empty on entry has been appended
\* to the output and an empty one has appended nothing.
C11_AccumulateThenFlush == [][C11_Step]_vars

C11_Witness ==
    /\ ~aborted
    /\ builder.build_client
    /\ ~builder.build_server
    /\ Len(calls) = 3
    /\ calls[3].op = "finalize"
    /\ clients = << >>
    /\ servers = << >>
    /\ StructIdents(buf) = <<"GreeterClient", "PingClient">>

BothRoles == builder.build_client /\ builder.build_server

\* the position of the last finalize call, 0 when there is none
LastFinalize ==
    IF FinalizeCalls = {} THEN 0
    ELSE CHOOSE i \in FinalizeCalls : \A j \in FinalizeCalls : j <= i

\* the names of the services whose generate call a finalize call has followed
RECURSIVE NamesUpTo(_)
NamesUpTo(n) ==
    IF n = 0 THEN << >>
    ELSE IF calls[n].op = "generate"
    THEN Append(NamesUpTo(n - 1), calls[n].service.name)
    ELSE NamesUpTo(n - 1)

FlushedNames == NamesUpTo(LastFinalize)

WithSuffix(names, suffix) == [ i \in 1..Len(names) |-> names[i] \o suffix ]

\* every service a finalize call has followed has its client stub and its
\* server stub in the output once, and the output holds nothing else
FlushedOnce ==
    /\ StructIdents(ClientText) = WithSuffix(FlushedNames, "Client")
    /\ StructIdents(ServerText) = WithSuffix(FlushedNames, "Server")
    /\ Len(buf) = 2 * Len(FlushedNames)

====
